---- MODULE Spec2Model ----
(***************************************************************************)
(* Model of the try-runtime `offchain-worker` replay command               *)
(* (utils/frame/try-runtime/cli/src/commands/offchain_worker.rs).          *)
(*                                                                         *)
(* The command is one sequential flow of control.  Its position is kept in *)
(* `stage`; every local variable of `offchain_worker` is a variable of the *)
(* model.  Option<T> is a set with at most one element, Result<T, E> is a  *)
(* record [tag, val, err]; a panic (panic!, unwrap, todo!) is a result     *)
(* with tag "panic".                                                       *)
(***************************************************************************)
EXTENDS Integers, FiniteSets, Sequences, TLC

\* ---------------------------------------------------------------- bounds
\* Hash strings are abstracted by the hash they denote: 1..MaxHash are
\* well-formed hashes, 0 is a hex string that is not a hash of the block type.
MaxHash == 2
\* Code blobs 1..MaxBlob.
MaxBlob == 5
\* Values stored under keys other than the code key: 1..MaxVal.
MaxVal == 1
\* What a run of the entry point may cost: 0..MaxCost.
MaxCost == 3

\* ------------------------------------------------------- Option / Result
None == {}
Some(x) == {x}
IsSome(o) == o # {}
The(o) == CHOOSE x \in o : TRUE
Opt(S) == {None} \cup {Some(x) : x \in S}

Ok(v) == [tag |-> "ok", val |-> Some(v), err |-> ""]
Err(e) == [tag |-> "err", val |-> None, err |-> e]
Panic(e) == [tag |-> "panic", val |-> None, err |-> e]
NotRun == [tag |-> "none", val |-> None, err |-> ""]
IsOk(r) == r.tag = "ok"
Failure(r) == r.tag \in {"err", "panic"}

\* ------------------------------------------------------------ the inputs
HashStrs == 0..MaxHash
Hashes == 1..MaxHash
LiveUri == "ws://state"
OtherUri == "ws://header"
Uris == {LiveUri, OtherUri}
Blobs == 1..MaxBlob

\* well_known_keys::CODE and one key the command does not interpret.
CODE == ":code"
OtherKey == ":other"
Keys == {CODE, OtherKey}

\* State::Snap { .. } | State::Live(LiveState { uri, at, .. })
States ==
    {[type |-> "Snap", path |-> "snap.bin"]}
    \cup {[type |-> "Live", uri |-> LiveUri, at |-> a] : a \in Opt(HashStrs)}

\* OffchainWorkerCmd { header_at, header_ws_uri, state }
Commands ==
    [header_at : Opt(HashStrs), header_ws_uri : Opt(Uris), state : States]

\* SharedParams::runtime : Runtime::Local | Runtime::Path(_) | Runtime::Remote
Runtimes == {"Local", "Path", "Remote"}

Overlays ==
    {[k \in Keys |-> IF k = CODE THEN c ELSE o] :
        c \in Opt(Blobs), o \in Opt(1..MaxVal)}
EmptyExt == [k \in Keys |-> None]

VARIABLES
    command,                 \* OffchainWorkerCmd
    shared,                  \* SharedParams (the runtime choice)
    stage,                   \* position of the driver
    failed_at,               \* the stage in which the run failed, if it did
    result,                  \* what offchain_worker returned (or its panic)
    header_at,               \* local header_at : Result<Block::Hash>
    header_ws_uri,           \* local header_ws_uri : String (or the panic)
    rpc,                     \* ws_client(..) : Result<client>
    header,                  \* the fetched header
    ext,                     \* the externalities (overlay)
    ext_res,                 \* the Result of building ext
    ext_built,               \* ext as it was when the build returned
    ext_block,               \* the block whose state populates ext
    maybe_code_to_overwrite, \* Result<Option<blob>>
    maybe_original_code,     \* Option<blob>
    old_version,             \* Option<Result<RuntimeVersion>>
    new_version,             \* Option<Result<RuntimeVersion>>
    invoke_count,            \* number of calls of state_machine_call
    call_res,                \* what state_machine_call returned
    execution,               \* what the engine did in that call
    log                      \* messages logged so far

vars == <<command, shared, stage, failed_at, result, header_at, header_ws_uri,
          rpc, header, ext, ext_res, ext_built, ext_block,
          maybe_code_to_overwrite, maybe_original_code, old_version,
          new_version, invoke_count, call_res, execution, log>>

Terminal == {"Success", "Failed"}

\* --------------------------------------------------------- collaborators
\* hash_of::<Block>(s): parses the string into a Block::Hash.
hash_of(s) == IF s \in Hashes THEN Ok(s) ELSE Err("InvalidHash")

\* ws_client(uri): the channel is established or it is not.
ws_client(uri) == {Ok(uri), Err("SourceUnreachable")}

\* ChainApi::header(&rpc, Some(hash)): Ok(Some(header)), Ok(None), Err(_).
\* A header is identified by the block it describes.
ChainApi_header(hash) == {Ok(Some(hash)), Ok(None), Err("RpcError")}

\* command.state.ext_builder()?.state_version(..).build().await?
\* The result is the overlay and the block it was taken at.
ext_builder(state) ==
    IF state.type = "Snap"
    THEN {Err("CorruptSnapshot")}
         \cup {Ok([ext |-> o, block |-> b]) : o \in Overlays, b \in Hashes}
    ELSE {Err("SourceUnreachable")}
         \cup (IF IsSome(state.at)
               THEN IF IsOk(hash_of(The(state.at)))
                    THEN {Err("BlockNotFound")}
                         \cup {Ok([ext |-> o, block |-> The(state.at)]) :
                                  o \in Overlays}
                    ELSE {Err("InvalidHash")}
               ELSE {Ok([ext |-> o, block |-> b]) :
                        o \in Overlays, b \in Hashes})

\* executor.read_runtime_version(code, ext): the encoded version, or an error
\* for a blob the executor cannot instantiate (blob 1).  The encoding is the
\* empty sequence for a blob whose version section is garbage (blob 2), else
\* the one-element sequence holding the spec version; blobs 4 and 5 differ
\* but carry the same spec version.
read_runtime_version(code) ==
    IF code = 1 THEN Err("VersionReadFailed")
    ELSE IF code = 2 THEN Ok(<<>>)
    ELSE Ok(<<code \div 2>>)

\* <RuntimeVersion as Decode>::decode
RuntimeVersion_decode(bytes) ==
    IF Len(bytes) = 0 THEN Err("VersionDecodeFailed")
    ELSE Ok([spec_version |-> bytes[1]])

EngineErrors == {"EntryPointNotFound", "ResourceExhausted", "Trap"}

\* The resource budget of an ExecutionRequest.
Budget == 2

\* No call of the engine yet.
NoExecution == [code |-> None, entry |-> FALSE, cost |-> 0, trap |-> FALSE]

\* What the engine can find when it runs the entry point on an overlay: the
\* code it runs is the blob under CODE; that code has the entry point or
\* not; running it would cost `cost` and ends normally or in a trap.  Without
\* code there is no entry point.
Executions(e) ==
    {[NoExecution EXCEPT !.code = e[CODE]]}
    \cup (IF e[CODE] = None
          THEN {}
          ELSE {[code |-> e[CODE], entry |-> TRUE, cost |-> c, trap |-> t] :
                   c \in 0..MaxCost, t \in BOOLEAN})

\* The outcome of invoke for one execution: the entry point must exist, the
\* budget is enforced, a fault is a Trap, else the result bytes.
EngineOutcome(x, data) ==
    IF ~x.entry THEN Err("EntryPointNotFound")
    ELSE IF x.cost > Budget THEN Err("ResourceExhausted")
    ELSE IF x.trap THEN Err("Trap")
    ELSE Ok(<<The(x.code), data>>)

\* state_machine_call(&ext, &executor, method, data, extensions): runs the
\* code installed under CODE; the possible executions with their results.
state_machine_call(e, data) ==
    {[res |-> EngineOutcome(x, data), run |-> x] : x \in Executions(e)}

\* ------------------------------------------------------------------ Init
Init ==
    /\ command \in Commands
    /\ shared \in [runtime : Runtimes]
    /\ stage = "Init"
    /\ failed_at = None
    /\ result = NotRun
    /\ header_at = NotRun
    /\ header_ws_uri = NotRun
    /\ rpc = NotRun
    /\ header = NotRun
    /\ ext = EmptyExt
    /\ ext_res = NotRun
    /\ ext_built = EmptyExt
    /\ ext_block = None
    /\ maybe_code_to_overwrite = NotRun
    /\ maybe_original_code = None
    /\ old_version = None
    /\ new_version = None
    /\ invoke_count = 0
    /\ call_res = NotRun
    /\ execution = NoExecution
    /\ log = {}

\* ------------------------------------------------- stage 1: the header
WarnHeaderAt == "--header-at is provided while state type is live"
WarnHeaderUri == "--header-uri is provided while state type is live"
InfoFetched == "fetched header"
InfoReplacing == "replacing the in-storage :code:"
InfoExecuted == "OffchainWorkerApi_offchain_worker executed without errors."

\* header_at with the first two arms below the third: the live source's `at`
\* wins over --header-at.
header_at_state_first(cmd) ==
    IF cmd.state.type = "Live" /\ IsSome(cmd.state.at)
    THEN [res |-> hash_of(The(cmd.state.at)), logs |-> {}]
    ELSE IF IsSome(cmd.header_at)
    THEN [res |-> hash_of(The(cmd.header_at)),
          logs |-> IF cmd.state.type = "Live" THEN {WarnHeaderAt} ELSE {}]
    ELSE [res |-> Panic("AmbiguousReference"), logs |-> {}]

\* header_at rejecting a --header-at that differs from the live source's `at`.
header_at_strict(cmd) ==
    IF IsSome(cmd.header_at) /\ cmd.state.type = "Snap"
    THEN [res |-> hash_of(The(cmd.header_at)), logs |-> {}]
    ELSE IF IsSome(cmd.header_at) /\ cmd.state.type = "Live"
    THEN IF IsSome(cmd.state.at) /\ cmd.state.at # cmd.header_at
         THEN [res |-> Err("InconsistentReference"), logs |-> {WarnHeaderAt}]
         ELSE [res |-> hash_of(The(cmd.header_at)), logs |-> {WarnHeaderAt}]
    ELSE IF cmd.state.type = "Live" /\ IsSome(cmd.state.at)
    THEN [res |-> hash_of(The(cmd.state.at)), logs |-> {}]
    ELSE [res |-> Panic("AmbiguousReference"), logs |-> {}]

\* header_at with the third arm resolving the first block instead of the
\* live source's `at`.
header_at_ignores_at(cmd) ==
    IF IsSome(cmd.header_at)
    THEN [res |-> hash_of(The(cmd.header_at)),
          logs |-> IF cmd.state.type = "Live" THEN {WarnHeaderAt} ELSE {}]
    ELSE IF cmd.state.type = "Live" /\ IsSome(cmd.state.at)
    THEN [res |-> hash_of(1), logs |-> {}]
    ELSE [res |-> Panic("AmbiguousReference"), logs |-> {}]

\* OffchainWorkerCmd::header_at: the hash to fetch the header at, and what
\* the method logged.
OffchainWorkerCmd_header_at(cmd) ==
    IF IsSome(cmd.header_at) /\ cmd.state.type = "Snap"
    THEN [res |-> hash_of(The(cmd.header_at)), logs |-> {}]
    ELSE IF IsSome(cmd.header_at) /\ cmd.state.type = "Live"
    THEN [res |-> hash_of(The(cmd.header_at)), logs |-> {WarnHeaderAt}]
    ELSE IF cmd.state.type = "Live" /\ IsSome(cmd.state.at)
    THEN [res |-> hash_of(The(cmd.state.at)), logs |-> {}]
    ELSE [res |-> Panic("AmbiguousReference"), logs |-> {}]

\* header_ws_uri with the live source's uri winning over --header-uri.
header_ws_uri_state_first(cmd) ==
    IF cmd.state.type = "Live"
    THEN [res |-> Ok(cmd.state.uri),
          logs |-> IF IsSome(cmd.header_ws_uri) THEN {WarnHeaderUri} ELSE {}]
    ELSE IF IsSome(cmd.header_ws_uri)
    THEN [res |-> Ok(The(cmd.header_ws_uri)), logs |-> {}]
    ELSE [res |-> Panic("MissingHeaderUri"), logs |-> {}]

\* OffchainWorkerCmd::header_ws_uri: the endpoint to fetch the header from.
OffchainWorkerCmd_header_ws_uri(cmd) ==
    IF IsSome(cmd.header_ws_uri) /\ cmd.state.type = "Snap"
    THEN [res |-> Ok(The(cmd.header_ws_uri)), logs |-> {}]
    ELSE IF IsSome(cmd.header_ws_uri) /\ cmd.state.type = "Live"
    THEN [res |-> Ok(The(cmd.header_ws_uri)), logs |-> {WarnHeaderUri}]
    ELSE IF cmd.state.type = "Live"
    THEN [res |-> Ok(cmd.state.uri), logs |-> {}]
    ELSE [res |-> Panic("MissingHeaderUri"), logs |-> {}]

\* .await.unwrap().unwrap() on the answer of ChainApi::header
UnwrapHeader(r) ==
    IF IsOk(r) /\ IsSome(The(r.val)) THEN Ok(The(The(r.val)))
    ELSE Panic("BlockNotFound")

\* The run stops: `?` returned the error, or the thread panicked.
Fail(r) ==
    /\ stage' = "Failed"
    /\ failed_at' = Some(stage)
    /\ result' = r

\* ResolveHeader going on without a channel: when ws_client fails the header
\* of the resolved hash is assumed and the run continues.
ResolveHeader_ignore_connect ==
    /\ stage = "Init"
    /\ LET ha == OffchainWorkerCmd_header_at(command)
           hu == OffchainWorkerCmd_header_ws_uri(command)
       IN  /\ header_at' = ha.res
           /\ IF Failure(ha.res)
              THEN /\ Fail(ha.res)
                   /\ log' = log \cup ha.logs
                   /\ UNCHANGED <<header_ws_uri, rpc, header>>
              ELSE /\ header_ws_uri' = hu.res
                   /\ IF Failure(hu.res)
                      THEN /\ Fail(hu.res)
                           /\ log' = log \cup ha.logs \cup hu.logs
                           /\ UNCHANGED <<rpc, header>>
                      ELSE \E c \in ws_client(The(hu.res.val)) :
                           /\ rpc' = c
                           /\ \E h \in ChainApi_header(The(ha.res.val)) :
                              LET hd == IF Failure(c) THEN Ok(The(ha.res.val))
                                        ELSE UnwrapHeader(h)
                              IN  /\ header' = hd
                                  /\ log' = log \cup ha.logs \cup hu.logs
                                                \cup {InfoFetched}
                                  /\ IF Failure(hd)
                                     THEN Fail(hd)
                                     ELSE /\ stage' = "HeaderResolved"
                                          /\ UNCHANGED <<failed_at, result>>
    /\ UNCHANGED <<command, shared, ext, ext_res, ext_built, ext_block,
                   maybe_code_to_overwrite, maybe_original_code, old_version,
                   new_version, invoke_count, call_res, execution>>

\* ResolveHeader taking the header of a snapshot from the snapshot: no
\* header uri is asked for and no channel is opened when the state is Snap.
ResolveHeader_snap_offline ==
    /\ stage = "Init"
    /\ LET ha == OffchainWorkerCmd_header_at(command)
           hu == OffchainWorkerCmd_header_ws_uri(command)
       IN  /\ header_at' = ha.res
           /\ IF Failure(ha.res)
              THEN /\ Fail(ha.res)
                   /\ log' = log \cup ha.logs
                   /\ UNCHANGED <<header_ws_uri, rpc, header>>
              ELSE IF command.state.type = "Snap"
              THEN /\ header' = ha.res
                   /\ stage' = "HeaderResolved"
                   /\ log' = log \cup ha.logs \cup {InfoFetched}
                   /\ UNCHANGED <<header_ws_uri, rpc, failed_at, result>>
              ELSE /\ header_ws_uri' = hu.res
                   /\ \E c \in ws_client(The(hu.res.val)) :
                      /\ rpc' = c
                      /\ IF Failure(c)
                         THEN /\ Fail(c)
                              /\ log' = log \cup ha.logs \cup hu.logs
                              /\ UNCHANGED header
                         ELSE \E h \in ChainApi_header(The(ha.res.val)) :
                              /\ header' = UnwrapHeader(h)
                              /\ IF Failure(UnwrapHeader(h))
                                 THEN /\ Fail(UnwrapHeader(h))
                                      /\ log' = log \cup ha.logs \cup hu.logs
                                 ELSE /\ stage' = "HeaderResolved"
                                      /\ log' = log \cup ha.logs \cup hu.logs
                                                    \cup {InfoFetched}
                                      /\ UNCHANGED <<failed_at, result>>
    /\ UNCHANGED <<command, shared, ext, ext_res, ext_built, ext_block,
                   maybe_code_to_overwrite, maybe_original_code, old_version,
                   new_version, invoke_count, call_res, execution>>

\* offchain_worker, lines 118-131: Init -> HeaderResolved
ResolveHeader ==
    /\ stage = "Init"
    /\ LET ha == OffchainWorkerCmd_header_at(command)
           hu == OffchainWorkerCmd_header_ws_uri(command)
       IN  /\ header_at' = ha.res
           /\ IF Failure(ha.res)
              THEN /\ Fail(ha.res)
                   /\ log' = log \cup ha.logs
                   /\ UNCHANGED <<header_ws_uri, rpc, header>>
              ELSE /\ header_ws_uri' = hu.res
                   /\ IF Failure(hu.res)
                      THEN /\ Fail(hu.res)
                           /\ log' = log \cup ha.logs \cup hu.logs
                           /\ UNCHANGED <<rpc, header>>
                      ELSE \E c \in ws_client(The(hu.res.val)) :
                           /\ rpc' = c
                           /\ IF Failure(c)
                              THEN /\ Fail(c)
                                   /\ log' = log \cup ha.logs \cup hu.logs
                                   /\ UNCHANGED header
                              ELSE \E h \in ChainApi_header(The(ha.res.val)) :
                                   /\ header' = UnwrapHeader(h)
                                   /\ IF Failure(UnwrapHeader(h))
                                      THEN /\ Fail(UnwrapHeader(h))
                                           /\ log' = log \cup ha.logs \cup hu.logs
                                      ELSE /\ stage' = "HeaderResolved"
                                           /\ log' = log \cup ha.logs \cup hu.logs
                                                         \cup {InfoFetched}
                                           /\ UNCHANGED <<failed_at, result>>
    /\ UNCHANGED <<command, shared, ext, ext_res, ext_built, ext_block,
                   maybe_code_to_overwrite, maybe_original_code, old_version,
                   new_version, invoke_count, call_res, execution>>

\* -------------------------------------------------- stage 2: the overlay
\* BuildState with the two `?` replaced by a default: a failed build goes on
\* with an empty overlay.
BuildState_ignore_error ==
    /\ stage = "HeaderResolved"
    /\ \E r \in ext_builder(command.state) :
        /\ ext_res' = (IF IsOk(r) THEN Ok("ext") ELSE r)
        /\ stage' = "StateBuilt"
        /\ ext' = (IF IsOk(r) THEN The(r.val).ext ELSE EmptyExt)
        /\ ext_built' = ext'
        /\ ext_block' = (IF IsOk(r) THEN Some(The(r.val).block) ELSE None)
        /\ UNCHANGED <<failed_at, result>>
    /\ UNCHANGED <<command, shared, header_at, header_ws_uri, rpc, header,
                   maybe_code_to_overwrite, maybe_original_code, old_version,
                   new_version, invoke_count, call_res, execution, log>>

\* offchain_worker, lines 134-139: HeaderResolved -> StateBuilt
BuildState ==
    /\ stage = "HeaderResolved"
    /\ \E r \in ext_builder(command.state) :
        /\ ext_res' = (IF IsOk(r) THEN Ok("ext") ELSE r)
        /\ IF Failure(r)
           THEN /\ Fail(r)
                /\ UNCHANGED <<ext, ext_built, ext_block>>
           ELSE /\ stage' = "StateBuilt"
                /\ ext' = The(r.val).ext
                /\ ext_built' = The(r.val).ext
                /\ ext_block' = Some(The(r.val).block)
                /\ UNCHANGED <<failed_at, result>>
    /\ UNCHANGED <<command, shared, header_at, header_ws_uri, rpc, header,
                   maybe_code_to_overwrite, maybe_original_code, old_version,
                   new_version, invoke_count, call_res, execution, log>>

\* ----------------------------------------------------- stage 3: the code
\* CodeToOverwrite with Runtime::Remote falling into the Local arm.
CodeToOverwrite_remote_as_local(runtime) ==
    IF runtime = "Path"
    THEN {Panic("NotYetImplemented")}
    ELSE {Panic("ChainSpecBuildFailed"), Panic("ChainSpecNoCode")}
         \cup {Ok(Some(b)) : b \in Blobs}

\* offchain_worker, lines 142-155: the code the CLI wishes to run.
\* Runtime::Local takes the code of the chain spec's genesis storage (both
\* unwraps may panic), Runtime::Path is todo!(), Runtime::Remote is None.
CodeToOverwrite(runtime) ==
    IF runtime = "Local"
    THEN {Panic("ChainSpecBuildFailed"), Panic("ChainSpecNoCode")}
         \cup {Ok(Some(b)) : b \in Blobs}
    ELSE IF runtime = "Path"
    THEN {Panic("NotYetImplemented")}
    ELSE {Ok(None)}

NoSubstitution(e) ==
    [ext |-> e, orig |-> None, old |-> None, new |-> None, fail |-> NotRun]

\* SubstituteCode replacing the whole overlay by one that holds the code only.
SubstituteCode_clobber(e, maybe_code) ==
    IF maybe_code = None
    THEN NoSubstitution(e)
    ELSE [NoSubstitution([k \in Keys |-> IF k = CODE THEN maybe_code ELSE None])
             EXCEPT !.orig = e[CODE]]

\* SubstituteCode reading the candidate's version outside the `if let
\* Some(old_code)`: it is read whether or not there is an original.
SubstituteCode_always_read_new(e, maybe_code) ==
    IF maybe_code = None
    THEN NoSubstitution(e)
    ELSE LET new_code == The(maybe_code)
             orig == e[CODE]
             e2 == [e EXCEPT ![CODE] = Some(new_code)]
             rn == read_runtime_version(new_code)
         IN  IF Failure(rn)
             THEN [NoSubstitution(e2) EXCEPT
                       !.orig = orig, !.fail = Panic(rn.err)]
             ELSE [NoSubstitution(e2) EXCEPT
                       !.orig = orig,
                       !.new = Some(RuntimeVersion_decode(The(rn.val)))]

\* SubstituteCode that also records under the other key that an original
\* was overwritten.
SubstituteCode_stash_original(e, maybe_code) ==
    IF maybe_code = None
    THEN NoSubstitution(e)
    ELSE [NoSubstitution([e EXCEPT ![CODE] = maybe_code,
                                   ![OtherKey] = IF e[CODE] = None THEN None
                                                 ELSE Some(1)])
             EXCEPT !.orig = e[CODE]]

\* offchain_worker, lines 162-174: the substitution and the version reads.
SubstituteCode(e, maybe_code) ==
    IF maybe_code = None
    THEN NoSubstitution(e)
    ELSE LET new_code == The(maybe_code)
             orig == e[CODE]
             e2 == [e EXCEPT ![CODE] = Some(new_code)]
         IN  IF orig = None
             THEN [NoSubstitution(e2) EXCEPT !.orig = orig]
             ELSE LET ro == read_runtime_version(The(orig))
                      rn == read_runtime_version(new_code)
                  IN  IF Failure(ro)
                      THEN [NoSubstitution(e2) EXCEPT
                                !.orig = orig, !.fail = Panic(ro.err)]
                      ELSE IF Failure(rn)
                      THEN [NoSubstitution(e2) EXCEPT
                                !.orig = orig,
                                !.old = Some(RuntimeVersion_decode(The(ro.val))),
                                !.fail = Panic(rn.err)]
                      ELSE [NoSubstitution(e2) EXCEPT
                                !.orig = orig,
                                !.old = Some(RuntimeVersion_decode(The(ro.val))),
                                !.new = Some(RuntimeVersion_decode(The(rn.val)))]

\* offchain_worker, lines 142-174: StateBuilt -> CodeResolved
ResolveCode ==
    /\ stage = "StateBuilt"
    /\ \E m \in CodeToOverwrite(shared.runtime) :
        /\ maybe_code_to_overwrite' = m
        /\ IF Failure(m)
           THEN /\ Fail(m)
                /\ UNCHANGED <<ext, maybe_original_code, old_version,
                               new_version, log>>
           ELSE LET s == SubstituteCode(ext, The(m.val))
                IN  /\ log' = log \cup {InfoReplacing}
                    /\ ext' = s.ext
                    /\ maybe_original_code' = s.orig
                    /\ old_version' = s.old
                    /\ new_version' = s.new
                    /\ IF Failure(s.fail)
                       THEN Fail(s.fail)
                       ELSE /\ stage' = "CodeResolved"
                            /\ UNCHANGED <<failed_at, result>>
    /\ UNCHANGED <<command, shared, header_at, header_ws_uri, rpc, header,
                   ext_res, ext_built, ext_block, invoke_count, call_res,
                   execution>>

\* ----------------------------------------------- stages 4 and 5: the call
\* header.encode()
Header_encode(h) == <<h>>

\* Invoke handing the engine the overlay as it was built, not the one the
\* code was substituted in.
Invoke_on_built_state ==
    /\ stage = "CodeResolved"
    /\ \E r \in state_machine_call(ext_built, Header_encode(The(header.val))) :
        /\ call_res' = r.res
        /\ execution' = r.run
    /\ invoke_count' = invoke_count + 1
    /\ stage' = "Invoked"
    /\ UNCHANGED <<command, shared, failed_at, result, header_at,
                   header_ws_uri, rpc, header, ext, ext_res, ext_built,
                   ext_block, maybe_code_to_overwrite, maybe_original_code,
                   old_version, new_version, log>>

\* offchain_worker, lines 176-182: CodeResolved -> Invoked
Invoke ==
    /\ stage = "CodeResolved"
    /\ \E r \in state_machine_call(ext, Header_encode(The(header.val))) :
        /\ call_res' = r.res
        /\ execution' = r.run
    /\ invoke_count' = invoke_count + 1
    /\ stage' = "Invoked"
    /\ UNCHANGED <<command, shared, failed_at, result, header_at,
                   header_ws_uri, rpc, header, ext, ext_res, ext_built,
                   ext_block, maybe_code_to_overwrite, maybe_original_code,
                   old_version, new_version, log>>

\* Finish calling the engine again after a first failure.
Finish_retry ==
    /\ stage = "Invoked"
    /\ IF Failure(call_res) /\ invoke_count < 2
       THEN /\ stage' = "CodeResolved"
            /\ UNCHANGED <<log, result, failed_at>>
       ELSE IF Failure(call_res)
       THEN /\ Fail(call_res)
            /\ UNCHANGED log
       ELSE /\ stage' = "Success"
            /\ result' = Ok(<<>>)
            /\ log' = log \cup {InfoExecuted}
            /\ UNCHANGED failed_at
    /\ UNCHANGED <<command, shared, header_at, header_ws_uri, rpc, header,
                   ext, ext_res, ext_built, ext_block,
                   maybe_code_to_overwrite, maybe_original_code, old_version,
                   new_version, invoke_count, call_res, execution>>

\* Finish dropping the result of the call: the `?` is missing.
Finish_ignore_error ==
    /\ stage = "Invoked"
    /\ stage' = "Success"
    /\ result' = Ok(<<>>)
    /\ log' = log \cup {InfoExecuted}
    /\ UNCHANGED failed_at
    /\ UNCHANGED <<command, shared, header_at, header_ws_uri, rpc, header,
                   ext, ext_res, ext_built, ext_block,
                   maybe_code_to_overwrite, maybe_original_code, old_version,
                   new_version, invoke_count, call_res, execution>>

\* Finish mapping every engine error to one generic error.
Finish_wrap_error ==
    /\ stage = "Invoked"
    /\ IF Failure(call_res)
       THEN /\ Fail(Err("Trap"))
            /\ UNCHANGED log
       ELSE /\ stage' = "Success"
            /\ result' = Ok(<<>>)
            /\ log' = log \cup {InfoExecuted}
            /\ UNCHANGED failed_at
    /\ UNCHANGED <<command, shared, header_at, header_ws_uri, rpc, header,
                   ext, ext_res, ext_built, ext_block,
                   maybe_code_to_overwrite, maybe_original_code, old_version,
                   new_version, invoke_count, call_res, execution>>

\* offchain_worker, lines 182-186: the `?` on the call, then Ok(())
Finish ==
    /\ stage = "Invoked"
    /\ IF Failure(call_res)
       THEN /\ Fail(call_res)
            /\ UNCHANGED log
       ELSE /\ stage' = "Success"
            /\ result' = Ok(<<>>)
            /\ log' = log \cup {InfoExecuted}
            /\ UNCHANGED failed_at
    /\ UNCHANGED <<command, shared, header_at, header_ws_uri, rpc, header,
                   ext, ext_res, ext_built, ext_block,
                   maybe_code_to_overwrite, maybe_original_code, old_version,
                   new_version, invoke_count, call_res, execution>>

Next ==
    \/ ResolveHeader
    \/ BuildState
    \/ ResolveCode
    \/ Invoke
    \/ Finish

Spec == Init /\ [][Next]_vars

\* One flow of control that is always scheduled: every await of the command
\* returns (the network client has timeouts), every other step is CPU-bound.
FairSpec == Spec /\ WF_vars(Next)

TypeOK ==
    /\ command \in Commands
    /\ shared.runtime \in Runtimes
    /\ stage \in {"Init", "HeaderResolved", "StateBuilt", "CodeResolved",
                  "Invoked"} \cup Terminal
    /\ ext \in Overlays
    /\ invoke_count \in 0..1

\* ================================================================ claims
IsLive == command.state.type = "Live"
IsSnap == command.state.type = "Snap"
HeaderAtRan == header_at.tag # "none"
CodeStepRan == maybe_code_to_overwrite.tag # "none"
FailedIn(st) == stage = "Failed" /\ failed_at = Some(st)

\* C1: header reference resolution follows a fixed priority: an explicit
\* header reference is the one resolved; else the `at` of a Live source is;
\* else (no header reference, and a Snapshot or a Live source without `at`)
\* the run fails with AmbiguousReference, nothing is connected to and no
\* header is fetched for a guessed reference.
C1_HeaderPriority ==
    HeaderAtRan =>
        /\ IsSome(command.header_at) =>
              header_at = hash_of(The(command.header_at))
        /\ (command.header_at = None /\ IsLive /\ IsSome(command.state.at)) =>
              header_at = hash_of(The(command.state.at))
        /\ (command.header_at = None
              /\ (IsSnap \/ (IsLive /\ command.state.at = None))) =>
              /\ header_at = Panic("AmbiguousReference")
              /\ FailedIn("Init")
              /\ result = Panic("AmbiguousReference")
              /\ rpc = NotRun
              /\ header = NotRun
        /\ IsOk(header) => header = header_at

C1_Witness ==
    /\ command.header_at = None
    /\ IsLive
    /\ command.state.at = None
    /\ FailedIn("Init")
    /\ result = Panic("AmbiguousReference")

\* C2: when an explicit header reference and the `at` of a Live source are
\* both supplied and name different blocks, the inconsistency is logged, the
\* explicit reference is the one resolved, and the run goes on: it connects
\* to the endpoint, and a failure of the first stage can only be the network's.
Disagree ==
    /\ IsLive
    /\ IsSome(command.header_at)
    /\ IsSome(command.state.at)
    /\ The(command.header_at) \in Hashes
    /\ The(command.state.at) \in Hashes
    /\ command.header_at # command.state.at

C2_DisagreementNotFatal ==
    (Disagree /\ HeaderAtRan) =>
        /\ WarnHeaderAt \in log
        /\ header_at = Ok(The(command.header_at))
        /\ rpc # NotRun
        /\ FailedIn("Init") =>
              result \in {Err("SourceUnreachable"), Panic("BlockNotFound")}
        /\ IsOk(header) => The(header.val) = The(command.header_at)

C2_Witness ==
    /\ Disagree
    /\ stage = "Invoked"
    /\ WarnHeaderAt \in log
    /\ The(header.val) = The(command.header_at)

\* C3: the driver is a strictly linear single pass: a run starts in Init,
\* every step either moves to the next stage of Init, HeaderResolved,
\* StateBuilt, CodeResolved, Invoked, Success or ends the run in Failed, no
\* step leaves a terminal stage, and every run reaches Success or Failed.
StageRank(s) ==
    CASE s = "Init" -> 0
      [] s = "HeaderResolved" -> 1
      [] s = "StateBuilt" -> 2
      [] s = "CodeResolved" -> 3
      [] s = "Invoked" -> 4
      [] s = "Success" -> 5
      [] s = "Failed" -> 5

LinearStep ==
    /\ stage \notin Terminal
    /\ \/ stage' = "Failed"
       \/ /\ stage' # "Failed"
          /\ StageRank(stage') = StageRank(stage) + 1

C3_LinearSinglePass ==
    /\ stage = "Init"
    /\ [][LinearStep]_vars
    /\ <>(stage \in Terminal)

C3_Witness ==
    /\ stage = "Success"
    /\ invoke_count = 1
    /\ IsOk(header)
    /\ IsOk(ext_res)
    /\ CodeStepRan

\* C4: stages 1 to 3 fail fast: when the header resolution, the state build
\* or the code resolution fails, the run is Failed with exactly that failure
\* and the engine was never called.
AbortsWith(r) ==
    Failure(r) =>
        /\ stage = "Failed"
        /\ result = r
        /\ invoke_count = 0
        /\ call_res = NotRun

C4_FailFast ==
    /\ AbortsWith(header_at)
    /\ AbortsWith(header_ws_uri)
    /\ AbortsWith(rpc)
    /\ AbortsWith(header)
    /\ AbortsWith(ext_res)
    /\ AbortsWith(maybe_code_to_overwrite)
    /\ (FailedIn("Init") \/ FailedIn("HeaderResolved") \/ FailedIn("StateBuilt")) =>
          /\ Failure(result)
          /\ invoke_count = 0
          /\ call_res = NotRun

C4_Witness ==
    /\ FailedIn("HeaderResolved")
    /\ ext_res = Err("CorruptSnapshot")
    /\ result = Err("CorruptSnapshot")
    /\ invoke_count = 0

\* C5: an engine failure is terminal and returned as it is: once the call has
\* failed the run cannot succeed, a finished run is Failed with exactly the
\* error the engine returned, and the engine is called at most once per run.
C5_EngineFailureVerbatim ==
    /\ invoke_count <= 1
    /\ Failure(call_res) =>
          /\ stage \in {"Invoked", "Failed"}
          /\ call_res.err \in EngineErrors
          /\ stage = "Failed" =>
                /\ failed_at = Some("Invoked")
                /\ result = call_res

C5_Witness ==
    /\ FailedIn("Invoked")
    /\ result = Err("ResourceExhausted")
    /\ call_res = result
    /\ invoke_count = 1

\* C6: code substitution writes the reserved code key only: after the step
\* from StateBuilt, whether it reached CodeResolved or failed, every other key
\* holds what it held when the overlay was built.
C6_OnlyCodeKeyWritten ==
    CodeStepRan =>
        \A k \in Keys \ {CODE} : ext[k] = ext_built[k]

C6_Witness ==
    /\ stage = "CodeResolved"
    /\ IsSome(The(maybe_code_to_overwrite.val))
    /\ ext[CODE] # ext_built[CODE]
    /\ IsSome(ext_built[CODE])
    /\ IsSome(ext[OtherKey])

\* C7: with no substitution source (Runtime::Remote) the code step cannot
\* fail and the value under the reserved code key in CodeResolved is the
\* value it had in StateBuilt, an absent value included.
C7_NoSubstitutionKeepsCode ==
    (shared.runtime = "Remote" /\ CodeStepRan) =>
        /\ ext[CODE] = ext_built[CODE]
        /\ maybe_original_code = None
        /\ ~FailedIn("StateBuilt")

C7_Witness ==
    /\ shared.runtime = "Remote"
    /\ stage = "CodeResolved"
    /\ ext_built[CODE] = None
    /\ ext[CODE] = None

\* C8: the version compatibility check never aborts the run: once a
\* candidate is at hand, whatever the two blobs are (a blob whose version
\* cannot be read included), the step from StateBuilt does not fail.
C8_VersionCheckNeverAborts ==
    (CodeStepRan /\ IsOk(maybe_code_to_overwrite)) => ~FailedIn("StateBuilt")

\* C9: when the original and the candidate blob both exist, the comparison
\* reports no mismatch for equal blobs and has reported a mismatch, before
\* the engine is called, when their spec versions differ.
WarnVersionMismatch == "spec version mismatch"
BothVersionsRead ==
    /\ IsSome(old_version)
    /\ IsSome(new_version)
    /\ IsOk(The(old_version))
    /\ IsOk(The(new_version))

C9_VersionMismatchReported ==
    (stage \in {"CodeResolved", "Invoked", "Success"}
        /\ IsSome(maybe_original_code)
        /\ IsSome(The(maybe_code_to_overwrite.val))) =>
        /\ maybe_original_code = The(maybe_code_to_overwrite.val) =>
              WarnVersionMismatch \notin log
        /\ (BothVersionsRead
              /\ The(The(old_version).val).spec_version
                    # The(The(new_version).val).spec_version) =>
              WarnVersionMismatch \in log

\* C10: each of the three substitution choices is honoured and the driver
\* goes on to the call: Remote leaves the reserved key as it is, Local
\* installs the locally built blob, Path installs the blob loaded from the
\* path.
C10_SubstitutionChoicesHonoured ==
    CodeStepRan =>
        /\ shared.runtime = "Remote" =>
              /\ ext[CODE] = ext_built[CODE]
              /\ ~FailedIn("StateBuilt")
        /\ (shared.runtime = "Local" /\ IsOk(maybe_code_to_overwrite)) =>
              /\ ext[CODE] = The(maybe_code_to_overwrite.val)
              /\ ~FailedIn("StateBuilt")
        /\ shared.runtime = "Path" =>
              /\ IsOk(maybe_code_to_overwrite)
              /\ IsSome(ext[CODE])
              /\ ext[CODE] = The(maybe_code_to_overwrite.val)
              /\ ~FailedIn("StateBuilt")

\* C11: when the channel to the endpoint cannot be established the run
\* fails with SourceUnreachable and no overlay is constructed: if it is the
\* header's channel the state build is not reached, if it is the state's
\* channel the build returns no overlay.
C11_UnreachableNoOverlay ==
    /\ rpc = Err("SourceUnreachable") =>
          /\ FailedIn("Init")
          /\ result = Err("SourceUnreachable")
          /\ ext_res = NotRun
          /\ ext = EmptyExt
          /\ ext_block = None
    /\ ext_res = Err("SourceUnreachable") =>
          /\ FailedIn("HeaderResolved")
          /\ result = Err("SourceUnreachable")
          /\ ext = EmptyExt
          /\ ext_block = None

C11_Witness ==
    /\ IsLive
    /\ rpc = Err("SourceUnreachable")
    /\ FailedIn("Init")
    /\ result = Err("SourceUnreachable")
    /\ ext_res = NotRun

\* C12: when the header fetch returns no header or an RPC error, the run is
\* Failed with the typed error BlockNotFound returned to the caller, and
\* neither the state build nor the call happens.
C12_BlockNotFoundReturned ==
    (IsOk(rpc) /\ stage # "Init" /\ ~IsOk(header)) =>
        /\ FailedIn("Init")
        /\ result = Err("BlockNotFound")
        /\ ext_res = NotRun
        /\ invoke_count = 0

\* C13 (as stated): in every run that reached the call, the block of the
\* fetched header is the block of the fetched state.
Called == invoke_count > 0

C13_HeaderMatchesState ==
    Called => Some(The(header.val)) = ext_block

\* C13 (amended): in every run that reached the call from a Live source with
\* an `at` reference, and with no explicit header reference or one equal to
\* `at`, the block of the fetched header is the block of the fetched state.
HeaderPinnedToState ==
    /\ IsLive
    /\ IsSome(command.state.at)
    /\ command.header_at \in {None, command.state.at}

C13_HeaderMatchesPinnedState ==
    (Called /\ HeaderPinnedToState) => Some(The(header.val)) = ext_block

C13_Witness ==
    /\ Called
    /\ command.header_at = None
    /\ IsLive
    /\ command.state.at = Some(2)
    /\ header = Ok(2)
    /\ ext_block = Some(2)

\* C14: the header is fetched from the explicit header URI when there is one,
\* else from the Live source's URI; the channel that is opened is opened to
\* that endpoint; a Snapshot source without explicit header URI fails before
\* any channel is opened.
C14_HeaderEndpoint ==
    HeaderAtRan =>
        /\ (IsOk(header_at) /\ IsSome(command.header_ws_uri)) =>
              header_ws_uri = Ok(The(command.header_ws_uri))
        /\ (IsOk(header_at) /\ command.header_ws_uri = None /\ IsLive) =>
              header_ws_uri = Ok(command.state.uri)
        /\ rpc # NotRun => IsOk(header_ws_uri)
        /\ IsOk(rpc) => rpc = header_ws_uri
        /\ (IsSnap /\ command.header_ws_uri = None) =>
              /\ FailedIn("Init")
              /\ Failure(result)
              /\ rpc = NotRun
              /\ header = NotRun

C14_Witness ==
    /\ IsSnap
    /\ command.header_ws_uri = None
    /\ header_at = Ok(1)
    /\ FailedIn("Init")
    /\ result = Panic("MissingHeaderUri")
    /\ rpc = NotRun

\* C15 (as stated): a run from a Snapshot source opens no network channel
\* and never fails with SourceUnreachable.
C15_SnapshotSelfContained ==
    IsSnap =>
        /\ rpc = NotRun
        /\ result # Err("SourceUnreachable")

\* C15 (amended): a run from a Snapshot source takes only the key-value set
\* from the snapshot; its header is fetched over a channel to the explicit
\* header URI: a Snapshot run that got past the header resolution has opened
\* that channel and fetched the header of the resolved hash through it, and
\* a channel that cannot be established fails the run with SourceUnreachable.
C15_SnapshotFetchesHeader ==
    IsSnap =>
        /\ (stage # "Init" /\ ~FailedIn("Init")) =>
              /\ IsSome(command.header_ws_uri)
              /\ rpc = Ok(The(command.header_ws_uri))
              /\ IsOk(header)
              /\ header = header_at
        /\ rpc = Err("SourceUnreachable") =>
              /\ FailedIn("Init")
              /\ result = Err("SourceUnreachable")

C15_Witness ==
    /\ IsSnap
    /\ stage = "Success"
    /\ rpc = Ok(OtherUri)
    /\ header = Ok(1)

\* C16: the call is bounded by the budget: whenever running the entry point
\* would cost more than the budget, the call returns ResourceExhausted, the
\* run does not succeed and ends Failed with ResourceExhausted.
OverBudget == Called /\ execution.entry /\ execution.cost > Budget

Substituted ==
    /\ IsOk(maybe_code_to_overwrite)
    /\ IsSome(The(maybe_code_to_overwrite.val))

C17_RunsInstalledCode ==
    Called =>
        /\ execution.code = ext[CODE]
        /\ Substituted => execution.code = The(maybe_code_to_overwrite.val)
        /\ (IsSome(maybe_original_code) /\ maybe_original_code # ext[CODE]) =>
              execution.code # maybe_original_code

C17_Witness ==
    /\ Called
    /\ Substituted
    /\ IsSome(maybe_original_code)
    /\ maybe_original_code # ext[CODE]
    /\ execution.code = ext[CODE]
    /\ execution.entry

\* C18: when the built state has no value under the reserved code key and a
\* candidate is supplied, the candidate is installed, no version is read
\* for either blob, and the code step does not fail.
C18_NoOriginalStillInstalls ==
    (CodeStepRan /\ Substituted /\ ext_built[CODE] = None) =>
        /\ ext[CODE] = The(maybe_code_to_overwrite.val)
        /\ maybe_original_code = None
        /\ old_version = None
        /\ new_version = None
        /\ ~FailedIn("StateBuilt")

C18_Witness ==
    /\ Called
    /\ Substituted
    /\ ext_built[CODE] = None
    /\ ext[CODE] = Some(1)

\* C19: code substitution is idempotent: the overlay after the substitution
\* of a candidate is the substitution applied to the built overlay, and
\* applying the substitution of the same candidate to it again gives the
\* same overlay.
C19_SubstitutionIdempotent ==
    (CodeStepRan /\ Substituted) =>
        LET c == The(maybe_code_to_overwrite.val)
            once == SubstituteCode(ext_built, c).ext
            twice == SubstituteCode(once, c).ext
        IN  /\ ext = once
            /\ twice = once

C19_Witness ==
    /\ stage = "CodeResolved"
    /\ Substituted
    /\ maybe_original_code = ext_built[CODE]
    /\ IsSome(maybe_original_code)
    /\ ext # ext_built
    /\ SubstituteCode(ext, The(maybe_code_to_overwrite.val)).ext = ext

\* C20: with a state without value under the reserved code key and no
\* substitution, a MissingCode advisory is logged, the engine is still
\* called, and the run ends Failed with EntryPointNotFound.
WarnMissingCode == "MissingCode"

C20_MissingCodeAdvisory ==
    (shared.runtime = "Remote" /\ CodeStepRan /\ ext_built[CODE] = None) =>
        /\ WarnMissingCode \in log
        /\ ~FailedIn("StateBuilt")
        /\ stage \in Terminal =>
              /\ FailedIn("Invoked")
              /\ invoke_count = 1
              /\ result = Err("EntryPointNotFound")

====
